---------------------------- MODULE Spec2Model ----------------------------
(***************************************************************************)
(* Decode-and-score layer of the utterance-to-phoneme harness.             *)
(*                                                                         *)
(*   src/customized/helper.py   convert_to_phonemes, target_to_phonemes,   *)
(*                              convert_to_string, decode_output,          *)
(*                              calculate_distances                        *)
(*   src/customized/phases.py   Training.train_model,                      *)
(*                              Evaluation.evaluate_model,                 *)
(*                              Testing.test_model                         *)
(*   src/customized/ctcdecodehandler.py   CTCDecodeHandler                 *)
(*   src/octopus/modelhandlers/lstmhandler.py   _convert_dict_to_dicts     *)
(*   src/octopus/octopus.py     Octopus.initialize_pipeline_components     *)
(*                                                                         *)
(* A string is a sequence of one-character strings ("ABC" is               *)
(* <<"A","B","C">>), so that its length and its characters can be         *)
(* compared.  A tensor row is a sequence (1-based here, 0-based in the     *)
(* source); batch and beam positions keep the source's 0-based numbering.  *)
(*                                                                         *)
(* calculate_distances reads row i of beam_results, out_lens and targets   *)
(* only in iteration i, so the model holds the row of the running          *)
(* iteration and draws the next row when the loop advances.                *)
(***************************************************************************)
EXTENDS Integers, Sequences, FiniteSets, TLC

VARIABLES
    phoneme_list,   \* pl.PHONEME_LIST, the table calculate_distances maps through
    n_batches,      \* beam_results.shape[0]
    i,              \* loop index of calculate_distances
    beam_results,   \* row i of the candidate tensor: i :> [beam -> buffer]
    out_lens,       \* row i of the length tensor:    i :> [beam -> length]
    targets,        \* row i of the targets:          i :> index sequence
    out_str,        \* local out_str of the running iteration
    target_str,     \* local target_str of the running iteration
    distance,       \* local distance of the running iteration
    distances,      \* the list of per-pair distances
    result,         \* <<>> until calculate_distances returns, then <<total>>
    exception,      \* "" or the name of the exception that left the call
    pc,             \* position in calculate_distances
    \* a caller of decode_output
    frames,         \* the caller's tensor, (time, batch, classes)
    frames_arg,     \* what that tensor held when the caller made it
    ctcdecode,      \* the decoder object: its configuration
    decoder_seen,   \* per call, the tensor ctcdecode.decode received
    decoder_gave,   \* per call, the four results ctcdecode.decode produced
    returned,       \* per call, what decode_output returned
    \* Testing.test_model
    test_n,         \* len(self.test_loader)
    test_k,         \* batches taken from the loader
    test_out,       \* out of the running batch, after out.cpu().detach()
    test_results,   \* results
    test_returned,  \* <<>> until test_model returns, then <<results>>
    test_exception, \* "" or the name of the exception that left test_model
    test_pc,        \* position in test_model
    test_examples,  \* examples of the batches taken from the loader
    \* the CTCDecodeHandler the phases share
    ctcdecodehandler,   \* the fields __init__ stored
    decoders_made,      \* calls of ctcdecodehandler.ctcdecoder()
    \* Evaluation.evaluate_model
    val_loader,         \* the batch sizes of self.val_loader, in loader order
    eval_k,             \* batches whose iteration has finished
    eval_out,           \* out of the running batch
    val_loss,           \* val_loss
    running_distance,   \* running_distance
    eval_trace,         \* the steps that ran, <<batch, step>> in order
    eval_returned,      \* <<>> until evaluate_model returns, then <<pair>>
    eval_exception,     \* "" or the name of the exception that left the call
    eval_pc,            \* position in evaluate_model
    \* Training.train_model
    train_loader,       \* len(self.train_loader)
    train_k,            \* batches whose iteration has finished
    train_loss,         \* train_loss
    train_losses,       \* the loss criterion_func gave for each batch, in order
    train_trace,        \* the steps that ran, <<batch, step>> in order
    train_returned,     \* <<>> until train_model returns, then <<average>>
    train_exception,    \* "" or the name of the exception that left the call
    train_pc,           \* position in train_model
    \* _convert_dict_to_dicts
    conv_dict,          \* the argument d: key -> value
    layer_number_set,   \* layer_number_set
    num_layers,         \* num_layers
    layer_i,            \* i of the loop of line 31
    layer_dicts,        \* layer_dicts
    layers_returned,    \* <<>> until the call returns, then <<layer_dicts>>
    layers_pc,          \* position in _convert_dict_to_dicts
    \* Octopus.initialize_pipeline_components
    handlers,           \* what the handlers were configured with
    octopus,            \* the attributes of self: <<>> until set, then <<value>>
    pipe_trace,         \* the statements that ran, in order
    pipe_exception,     \* "" or the name of the exception that left the call
    pipe_pc             \* the statement to run next

score_vars == <<phoneme_list, n_batches, i, beam_results, out_lens, targets,
                out_str, target_str, distance, distances, result, exception, pc>>
decode_vars == <<frames, frames_arg, ctcdecode, decoder_seen, decoder_gave, returned>>
test_vars == <<test_n, test_k, test_out, test_results, test_returned,
               test_exception, test_pc, test_examples>>
handler_vars == <<ctcdecodehandler, decoders_made>>
eval_vars == <<val_loader, eval_k, eval_out, val_loss, running_distance,
               eval_trace, eval_returned, eval_exception, eval_pc>>

train_vars == <<train_loader, train_k, train_loss, train_losses, train_trace,
                train_returned, train_exception, train_pc>>
layers_vars == <<conv_dict, layer_number_set, num_layers, layer_i, layer_dicts,
                 layers_returned, layers_pc>>
pipe_vars == <<handlers, octopus, pipe_trace, pipe_exception, pipe_pc>>

vars == <<score_vars, decode_vars, test_vars, handler_vars, eval_vars,
          train_vars, layers_vars, pipe_vars>>

\* what the steps of one component leave alone
caller_vars == <<frames, frames_arg, decoder_seen, decoder_gave, returned>>
setup_vars == <<layers_vars, pipe_vars>>
score_frame == <<decode_vars, test_vars, handler_vars, eval_vars, train_vars, setup_vars>>
decode_frame == <<score_vars, test_vars, handler_vars, eval_vars, train_vars, setup_vars>>
test_frame == <<score_vars, caller_vars, eval_vars, train_vars, setup_vars>>
eval_frame == <<score_vars, caller_vars, test_vars, train_vars, setup_vars>>
train_frame == <<score_vars, decode_vars, test_vars, handler_vars, eval_vars, setup_vars>>
layers_frame == <<score_vars, decode_vars, test_vars, handler_vars, eval_vars,
                  train_vars, pipe_vars>>
pipe_frame == <<score_vars, decode_vars, test_vars, handler_vars, eval_vars,
                train_vars, layers_vars>>

---------------------------------------------------------------------------
(* Bounds *)

MaxBatch == 2       \* largest batch (beam_results.shape[0])
MaxTime == 2        \* timesteps of a candidate buffer (beam_results.shape[2])
MaxTarget == 2      \* longest target row
NumBeams == 2       \* beams per batch element (beam_results.shape[1])
MaxLoader == 2      \* most batches in a data loader
MaxLoss == 2        \* largest loss of one batch
MaxLayer == 3       \* largest layer number in a key of conv_dict

---------------------------------------------------------------------------
(* Python values *)

Ok(v) == [exc |-> "", val |-> v]
Raise(e) == [exc |-> e, val |-> <<>>]

Min2(a, b) == IF a <= b THEN a ELSE b
Min3(a, b, c) == Min2(a, Min2(b, c))

\* variant: the slice keeps one entry too many
PySlice_onemore(seq, n) == SubSeq(seq, 1, Min2(n + 1, Len(seq)))

\* seq[:n] for n >= 0: at most the first n entries
PySlice(seq, n) == SubSeq(seq, 1, Min2(n, Len(seq)))

\* ''.join(list of strings)
RECURSIVE Join(_)
Join(strs) == IF strs = <<>> THEN <<>> ELSE Head(strs) \o Join(Tail(strs))

\* variant: the last entry is left out of the sum
RECURSIVE SumSeq_droplast(_)
SumSeq_droplast(s) == IF Len(s) <= 1 THEN 0 ELSE Head(s) + SumSeq_droplast(Tail(s))

\* np.array(list).sum()
RECURSIVE SumSeq(_)
SumSeq(s) == IF s = <<>> THEN 0 ELSE Head(s) + SumSeq(Tail(s))

---------------------------------------------------------------------------
(* The phoneme table.  customized/phoneme_list.py defines PHONEME_LIST as  *)
(* a fixed ordered list of symbols; the model lets it be a table of        *)
(* one-character symbols, a table with a two-character symbol, or a        *)
(* one-entry table (for which the class index 1 is out of range).          *)

PhonemeMaps == { << <<"A">>, <<"B">> >>,
                 << <<"A">>, <<"B", "A">> >>,
                 << <<"A", "B">> >> }

MaxOf(S) == CHOOSE x \in S : \A y \in S : y <= x

\* class indices a tensor may hold; with the shorter table the largest is
\* out of range
LabelIds == 0 .. (MaxOf({Len(m) : m \in PhonemeMaps}) - 1)

---------------------------------------------------------------------------
(* Symbol conversion, src/customized/helper.py lines 9-29 *)

\* phoneme_list[idx] of a Python list, idx >= 0
InRange(phoneme_map, idx) == idx < Len(phoneme_map)

\* variant: an index the table does not hold is skipped
MapThrough_skip(seq, phoneme_map) ==
    LET kept == SelectSeq(seq, LAMBDA idx : idx < Len(phoneme_map))
    IN  [exc |-> "", val |-> [k \in 1..Len(kept) |-> phoneme_map[kept[k] + 1]]]

\* [phoneme_list[idx] for idx in seq]: the list of symbols, or the IndexError
\* of the first index the table does not hold
MapThrough(seq, phoneme_map) ==
    IF \E k \in 1..Len(seq) : ~InRange(phoneme_map, seq[k])
    THEN Raise("IndexError")
    ELSE Ok([k \in 1..Len(seq) |-> phoneme_map[seq[k] + 1]])

\* variant: the buffer is not truncated to the reported length
convert_to_phonemes_whole(ii, beams, lens, phoneme_map) ==
    LET j == 0
    IN  MapThrough(beams[ii][j], phoneme_map)

convert_to_phonemes(ii, beams, lens, phoneme_map) ==
    LET j == 0
        beam == PySlice(beams[ii][j], lens[ii][j])
    IN  MapThrough(beam, phoneme_map)

\* variant: the last entry of the target is not mapped
target_to_phonemes_droplast(target, phoneme_map) ==
    MapThrough(SubSeq(target, 1, Len(target) - 1), phoneme_map)

target_to_phonemes(target, phoneme_map) == MapThrough(target, phoneme_map)

\* variant: ' '.join
RECURSIVE convert_to_string_spaced(_)
convert_to_string_spaced(converted_list) ==
    IF Len(converted_list) <= 1 THEN Join(converted_list)
    ELSE Head(converted_list) \o <<" ">> \o convert_to_string_spaced(Tail(converted_list))

convert_to_string(converted_list) == Join(converted_list)

\* to_symbols of the specification: convert_to_phonemes, then
\* convert_to_string on what it returned
to_symbols(ii, beams, lens, phoneme_map) ==
    LET converted == convert_to_phonemes(ii, beams, lens, phoneme_map)
    IN  IF converted.exc # "" THEN converted
        ELSE Ok(convert_to_string(converted.val))

---------------------------------------------------------------------------
(* Levenshtein.distance(a, b): the row-by-row dynamic programme over the   *)
(* prefixes of a and b.  prev[k] is the distance between the consumed      *)
(* prefix of a and the first k-1 characters of b.                          *)

RECURSIVE FillRow(_, _, _, _)
FillRow(prev, ch, b, cur) ==
    IF Len(cur) = Len(b) + 1 THEN cur
    ELSE LET k == Len(cur)
             cost == IF b[k] = ch THEN 0 ELSE 1
         IN  FillRow(prev, ch, b,
                     Append(cur, Min3(prev[k + 1] + 1, cur[k] + 1, prev[k] + cost)))

RECURSIVE LastRow(_, _, _)
LastRow(a, b, prev) ==
    IF a = <<>> THEN prev
    ELSE LastRow(Tail(a), b, FillRow(prev, Head(a), b, <<prev[1] + 1>>))

Levenshtein_distance(a, b) ==
    LastRow(a, b, [k \in 1..(Len(b) + 1) |-> k - 1])[Len(b) + 1]

---------------------------------------------------------------------------
(* calculate_distances, src/customized/helper.py lines 47-70 *)

\* variant: a pair that cannot be converted counts as distance 0
pair_distance_swallow(ii, beams, lens, tgts, phoneme_map) ==
    LET out_converted == convert_to_phonemes(ii, beams, lens, phoneme_map)
        target_converted == target_to_phonemes(tgts[ii], phoneme_map)
    IN  IF out_converted.exc # "" \/ target_converted.exc # ""
        THEN Ok([out_str |-> <<>>, target_str |-> <<>>, distance |-> 0])
        ELSE LET o == convert_to_string(out_converted.val)
                 t == convert_to_string(target_converted.val)
             IN  Ok([out_str |-> o, target_str |-> t,
                     distance |-> Levenshtein_distance(o, t)])

\* variant: the target string is cut to the length of the decoded string
\* before the distance is taken
pair_distance_cut(ii, beams, lens, tgts, phoneme_map) ==
    LET out_converted == convert_to_phonemes(ii, beams, lens, phoneme_map)
        target_converted == target_to_phonemes(tgts[ii], phoneme_map)
    IN  IF out_converted.exc # "" THEN Raise(out_converted.exc)
        ELSE IF target_converted.exc # "" THEN Raise(target_converted.exc)
        ELSE LET o == convert_to_string(out_converted.val)
                 t == convert_to_string(target_converted.val)
             IN  Ok([out_str |-> o, target_str |-> t,
                     distance |-> Levenshtein_distance(o, PySlice(t, Len(o)))])

\* lines 54-60 for pair ii: both conversions, both strings, the distance
pair_distance(ii, beams, lens, tgts, phoneme_map) ==
    LET out_converted == convert_to_phonemes(ii, beams, lens, phoneme_map)
        target_converted == target_to_phonemes(tgts[ii], phoneme_map)
    IN  IF out_converted.exc # "" THEN Raise(out_converted.exc)
        ELSE IF target_converted.exc # "" THEN Raise(target_converted.exc)
        ELSE LET o == convert_to_string(out_converted.val)
                 t == convert_to_string(target_converted.val)
             IN  Ok([out_str |-> o, target_str |-> t,
                     distance |-> Levenshtein_distance(o, t)])

\* the rows the caller may pass: the top beam and the target are arbitrary,
\* a lower-ranked beam is either empty or full of the largest class index
Buffers == [1..MaxTime -> LabelIds]
LowerBeams == { [buf |-> [k \in 1..MaxTime |-> 0], len |-> 0],
                [buf |-> [k \in 1..MaxTime |-> MaxOf(LabelIds)], len |-> MaxTime] }
BeamRows == { b \in [0..(NumBeams - 1) -> [buf : Buffers, len : 0..MaxTime]] :
                \A j \in 1..(NumBeams - 1) : b[j] \in LowerBeams }
TargetRows == UNION { [1..n -> LabelIds] : n \in 0..MaxTarget }

NoRow == <<>>

\* row ii of the three tensors becomes readable
ReadRow(ii) ==
    \E b \in BeamRows, t \in TargetRows :
        /\ beam_results' = (ii :> [j \in 0..(NumBeams - 1) |-> b[j].buf])
        /\ out_lens' = (ii :> [j \in 0..(NumBeams - 1) |-> b[j].len])
        /\ targets' = (ii :> t)

DropRow ==
    /\ beam_results' = NoRow
    /\ out_lens' = NoRow
    /\ targets' = NoRow

\* lines 47-51: the call, distances = []
ScoreInit ==
    /\ phoneme_list \in PhonemeMaps
    /\ n_batches \in 0..MaxBatch
    /\ i = 0
    /\ beam_results = NoRow
    /\ out_lens = NoRow
    /\ targets = NoRow
    /\ out_str = <<>>
    /\ target_str = <<>>
    /\ distance = 0
    /\ distances = <<>>
    /\ result = <<>>
    /\ exception = ""
    /\ pc = "loop"

\* line 53: the loop takes the next pair, or ends after n_batches pairs
LoopHead ==
    /\ pc = "loop"
    /\ IF i < n_batches
       THEN ReadRow(i) /\ pc' = "convert"
       ELSE DropRow /\ pc' = "return"
    /\ UNCHANGED score_frame
    /\ UNCHANGED <<phoneme_list, n_batches, i, out_str, target_str, distance,
                   distances, result, exception>>

\* lines 54-60 of iteration i
ConvertAndMeasure ==
    /\ pc = "convert"
    /\ LET r == pair_distance(i, beam_results, out_lens, targets, phoneme_list)
       IN  /\ r.exc = ""
           /\ out_str' = r.val.out_str
           /\ target_str' = r.val.target_str
           /\ distance' = r.val.distance
    /\ pc' = "append"
    /\ UNCHANGED score_frame
    /\ UNCHANGED <<phoneme_list, n_batches, i, beam_results, out_lens, targets,
                   distances, result, exception>>

\* lines 54-55 of iteration i raise: the exception leaves calculate_distances
ConvertRaises ==
    /\ pc = "convert"
    /\ LET r == pair_distance(i, beam_results, out_lens, targets, phoneme_list)
       IN  /\ r.exc # ""
           /\ exception' = r.exc
    /\ pc' = "raised"
    /\ UNCHANGED score_frame
    /\ UNCHANGED <<phoneme_list, n_batches, i, beam_results, out_lens, targets,
                   out_str, target_str, distance, distances, result>>

\* line 61: the distance is recorded; the loop index moves to the next pair
\* and the pair's row and locals are dead
AppendDistance ==
    /\ pc = "append"
    /\ distances' = Append(distances, distance)
    /\ i' = i + 1
    /\ DropRow
    /\ out_str' = <<>>
    /\ target_str' = <<>>
    /\ distance' = 0
    /\ pc' = "loop"
    /\ UNCHANGED score_frame
    /\ UNCHANGED <<phoneme_list, n_batches, result, exception>>

\* line 70
Return ==
    /\ pc = "return"
    /\ result' = <<SumSeq(distances)>>
    /\ pc' = "done"
    /\ UNCHANGED score_frame
    /\ UNCHANGED <<phoneme_list, n_batches, i, beam_results, out_lens, targets,
                   out_str, target_str, distance, distances, exception>>

\* calculate_distances is not running
ScoreIdle ==
    /\ phoneme_list = <<>>
    /\ n_batches = 0
    /\ i = 0
    /\ beam_results = NoRow
    /\ out_lens = NoRow
    /\ targets = NoRow
    /\ out_str = <<>>
    /\ target_str = <<>>
    /\ distance = 0
    /\ distances = <<>>
    /\ result = <<>>
    /\ exception = ""
    /\ pc = "idle"

Next == LoopHead \/ ConvertAndMeasure \/ ConvertRaises \/ AppendDistance \/ Return

---------------------------------------------------------------------------
(* The beam-search decoder, src/customized/ctcdecodehandler.py.  The       *)
(* decoder is the external ctcdecode.CTCBeamDecoder; the model gives it    *)
(* the behaviour the harness relies on: decode(probs) reads probs as       *)
(* (batch, time, classes), is a function of probs and of the decoder's     *)
(* configuration, and returns candidates, scores, alignments and lengths   *)
(* per batch element and beam.  Its top beam is the best path (the most    *)
(* probable class of each timestep, repeats merged, blanks removed); the   *)
(* lower beams are empty.                                                  *)

\* pl.PHONEME_MAP, the decoder's labels and the table of the testing phase
PHONEME_MAP == << <<" ">>, <<"a">>, <<"b">> >>

\* CTCDecodeHandler.__init__ and ctcdecoder(): the configuration a decoder
\* is built from; the values come from the configuration file
Decoders ==
    { [labels |-> PHONEME_MAP, model_path |-> "None", alpha |-> "alpha",
       beta |-> "beta", cutoff_top_n |-> "cutoff_top_n",
       cutoff_prob |-> "cutoff_prob", beam_width |-> NumBeams,
       num_processes |-> "cpu_count", blank_id |-> blank,
       log_probs_input |-> FALSE] : blank \in {0, Len(PHONEME_MAP) - 1} }

\* a frame: the class distribution of one timestep of one batch element,
\* all its weight on one class
OneHots == { [c \in 1..Len(PHONEME_MAP) |-> IF c = hot THEN 1 ELSE 0] :
                hot \in 1..Len(PHONEME_MAP) }

\* model output, (time, batch, classes)
Frames == UNION { [1..t -> [1..b -> OneHots]] : t \in 1..MaxTime, b \in 1..MaxBatch }

\* the most probable class of a frame, counted from 0
ArgMax(frame) ==
    (CHOOSE c \in 1..Len(frame) :
        /\ \A d \in 1..Len(frame) : frame[d] <= frame[c]
        /\ \A d \in 1..(c - 1) : frame[d] < frame[c]) - 1

\* best path of one batch element: <<labels, timesteps>>; t is the timestep
\* (from 0) of Head(frames_b), prev the class of the timestep before
RECURSIVE BestPath(_, _, _, _)
BestPath(frames_b, t, prev, blank) ==
    IF frames_b = <<>> THEN << <<>>, <<>> >>
    ELSE LET c == ArgMax(Head(frames_b))
             rest == BestPath(Tail(frames_b), t + 1, c, blank)
         IN  IF c = blank \/ c = prev THEN rest
             ELSE << <<c>> \o rest[1], <<t>> \o rest[2] >>

\* seq followed by zeros up to length n
Pad(seq, n) == [k \in 1..n |-> IF k <= Len(seq) THEN seq[k] ELSE 0]

\* ctcdecode.decode(probs), probs read as (batch, time, classes):
\* <<beam_results, beam_scores, timesteps, out_lens>>
ctc_decode(decoder, probs) ==
    LET n_batch == Len(probs)
        n_time == Len(probs[1])
        beams == 0..(decoder.beam_width - 1)
        path(b) == BestPath(probs[b + 1], 0, -1, decoder.blank_id)
    IN  << [b \in 0..(n_batch - 1) |->
               [j \in beams |-> IF j = 0 THEN Pad(path(b)[1], n_time)
                                ELSE Pad(<<>>, n_time)]],
           [b \in 0..(n_batch - 1) |-> [j \in beams |-> j]],
           [b \in 0..(n_batch - 1) |->
               [j \in beams |-> IF j = 0 THEN Pad(path(b)[2], n_time)
                                ELSE Pad(<<>>, n_time)]],
           [b \in 0..(n_batch - 1) |->
               [j \in beams |-> IF j = 0 THEN Len(path(b)[1]) ELSE 0]] >>

---------------------------------------------------------------------------
(* decode_output, src/customized/helper.py lines 32-44 *)

\* torch.transpose(out, 0, 1): a new tensor object over the same storage
Transpose01(out) == [b \in 1..Len(out[1]) |-> [t \in 1..Len(out) |-> out[t][b]]]

\* variant: out.transpose_(0, 1), which transposes the caller's tensor
decode_output_inplace(out, decoder) ==
    LET transposed == Transpose01(out)
        gave == ctc_decode(decoder, transposed)
    IN  [caller_out |-> transposed, seen |-> transposed, gave |-> gave,
         decoder |-> decoder,
         returned |-> <<gave[1], gave[2], gave[3], gave[4]>>]

\* variant: the lengths are returned in the place of the scores
decode_output_swapped(out, decoder) ==
    LET transposed == Transpose01(out)
        gave == ctc_decode(decoder, transposed)
    IN  [caller_out |-> out, seen |-> transposed, gave |-> gave,
         decoder |-> decoder,
         returned |-> <<gave[1], gave[4], gave[3], gave[2]>>]

\* variant: the call switches the decoder to log-probability input
decode_output_reconfigure(out, decoder) ==
    LET transposed == Transpose01(out)
        gave == ctc_decode(decoder, transposed)
    IN  [caller_out |-> out, seen |-> transposed, gave |-> gave,
         decoder |-> [decoder EXCEPT !.log_probs_input = TRUE],
         returned |-> <<gave[1], gave[2], gave[3], gave[4]>>]

\* the call: what the caller's tensor and the decoder hold afterwards, what
\* the decoder received and produced, and what the call returns
decode_output(out, decoder) ==
    LET transposed == Transpose01(out)
        gave == ctc_decode(decoder, transposed)
        beam_results_ == gave[1]
        beam_scores_ == gave[2]
        timesteps_ == gave[3]
        out_lens_ == gave[4]
    IN  [caller_out |-> out, seen |-> transposed, gave |-> gave,
         decoder |-> decoder,
         returned |-> <<beam_results_, beam_scores_, timesteps_, out_lens_>>]

\* a caller holds a tensor and a decoder
DecodeInit ==
    /\ frames \in Frames
    /\ frames_arg = frames
    /\ ctcdecode \in Decoders
    /\ decoder_seen = <<>>
    /\ decoder_gave = <<>>
    /\ returned = <<>>

DecodeIdle ==
    /\ frames = <<>>
    /\ frames_arg = <<>>
    /\ ctcdecode = <<>>
    /\ decoder_seen = <<>>
    /\ decoder_gave = <<>>
    /\ returned = <<>>

\* the caller calls decode_output(frames, ctcdecode), a first and a second
\* time with the same two objects
CallDecodeOutput ==
    /\ frames # <<>>
    /\ Len(returned) < Len(<<"first", "second">>)
    /\ LET call == decode_output(frames, ctcdecode)
       IN  /\ frames' = call.caller_out
           /\ decoder_seen' = Append(decoder_seen, call.seen)
           /\ decoder_gave' = Append(decoder_gave, call.gave)
           /\ returned' = Append(returned, call.returned)
           /\ ctcdecode' = call.decoder
    /\ UNCHANGED frames_arg
    /\ UNCHANGED decode_frame

NextDecode == CallDecodeOutput

---------------------------------------------------------------------------
(* Testing.test_model, src/customized/phases.py lines 183-226 *)

\* def decode_output(out, ctcdecode), helper.py line 32
decode_output_params == <<"out", "ctcdecode">>

\* the names src/customized/helper.py defines
helper_names == {"convert_to_phonemes", "target_to_phonemes", "convert_to_string",
                 "decode_output", "calculate_distances"}

\* a call with these positional arguments of a function with these parameters
CallFits(params, args) == Len(args) = Len(params)

\* out_to_phonemes is imported by phases.py and is not defined in helper.py;
\* it is given the behaviour of the specification's to_symbols
out_to_phonemes(ii, beams, lens, phoneme_map) ==
    convert_to_phonemes(ii, beams, lens, phoneme_map)

\* lines 220-224 for one batch: the decoded string of every batch element,
\* or the exception of the first that cannot be converted
RECURSIVE BatchStrings(_, _, _, _)
BatchStrings(ii, n, beams, lens) ==
    IF ii = n THEN Ok(<<>>)
    ELSE LET out_converted == out_to_phonemes(ii, beams, lens, PHONEME_MAP)
         IN  IF out_converted.exc # "" THEN out_converted
             ELSE LET rest == BatchStrings(ii + 1, n, beams, lens)
                  IN  IF rest.exc # "" THEN rest
                      ELSE Ok(<<convert_to_string(out_converted.val)>> \o rest.val)

\* CTCDecodeHandler.__init__, ctcdecodehandler.py lines 27-43
HandlerInit ==
    /\ ctcdecodehandler \in Decoders
    /\ decoders_made = 0

HandlerIdle ==
    /\ ctcdecodehandler = <<>>
    /\ decoders_made = 0

\* CTCDecodeHandler.ctcdecoder, ctcdecodehandler.py lines 45-48: a new
\* decoder built from the stored fields
MakeDecoder ==
    /\ ctcdecode' = ctcdecodehandler
    /\ decoders_made' = decoders_made + 1
    /\ UNCHANGED ctcdecodehandler

\* a Testing object whose test_model is called
TestInit ==
    /\ test_n \in 0..MaxLoader
    /\ test_k = 0
    /\ test_out = <<>>
    /\ test_results = <<>>
    /\ test_returned = <<>>
    /\ test_exception = ""
    /\ test_pc = "begin"
    /\ test_examples = 0
    /\ ctcdecode = <<>>

TestIdle ==
    /\ test_n = 0
    /\ test_k = 0
    /\ test_out = <<>>
    /\ test_results = <<>>
    /\ test_returned = <<>>
    /\ test_exception = ""
    /\ test_pc = "idle"
    /\ test_examples = 0

\* lines 197-203: the empty list, the decoder, the model in eval mode
TestBegin ==
    /\ test_pc = "begin"
    /\ MakeDecoder
    /\ test_pc' = "loop"
    /\ UNCHANGED <<test_n, test_k, test_out, test_results, test_returned,
                   test_exception, test_examples>>
    /\ UNCHANGED test_frame

\* lines 206-224: one mini-batch.  The forward pass yields out; the call
\* decode_output(out, ctcdecode, input_lengths) of line 217 is made with three
\* arguments; the strings of the batch are appended to results
TestBatch ==
    /\ test_pc = "loop"
    /\ test_k < test_n
    /\ \E out \in Frames :
          /\ test_out' = out
          /\ test_examples' = test_examples + Len(Transpose01(out))
          /\ IF ~CallFits(decode_output_params, <<"out", "ctcdecode", "input_lengths">>)
             THEN /\ test_exception' = "TypeError"
                  /\ test_pc' = "raised"
                  /\ UNCHANGED <<test_k, test_results>>
             ELSE IF "out_to_phonemes" \notin helper_names
             THEN /\ test_exception' = "NameError"
                  /\ test_pc' = "raised"
                  /\ UNCHANGED <<test_k, test_results>>
             ELSE LET call == decode_output(out, ctcdecode)
                      n == Len(Transpose01(out))
                      strings == BatchStrings(0, n, call.returned[1], call.returned[4])
                  IN  IF strings.exc # ""
                      THEN /\ test_exception' = strings.exc
                           /\ test_pc' = "raised"
                           /\ UNCHANGED <<test_k, test_results>>
                      ELSE /\ test_results' = test_results \o strings.val
                           /\ test_k' = test_k + 1
                           /\ UNCHANGED <<test_exception, test_pc>>
    /\ UNCHANGED <<test_n, test_returned, ctcdecode, handler_vars>>
    /\ UNCHANGED test_frame

\* line 226
TestReturn ==
    /\ test_pc = "loop"
    /\ test_k = test_n
    /\ test_returned' = <<test_results>>
    /\ test_pc' = "done"
    /\ UNCHANGED <<test_n, test_k, test_out, test_results, test_exception,
                   test_examples, ctcdecode, handler_vars>>
    /\ UNCHANGED test_frame

NextTest == TestBegin \/ TestBatch \/ TestReturn

---------------------------------------------------------------------------
(* Evaluation.evaluate_model, src/customized/phases.py lines 110-162 *)

\* the batch sizes a loader of n batches can have
Loaders == UNION { [1..n -> 1..MaxBatch] : n \in 0..MaxLoader }

\* model output of a batch of b elements; evaluation is followed over
\* outputs of one timestep
BatchOutputs(b) == [1..Len(<<"t">>) -> [1..b -> OneHots]]

\* criterion_func is outside the repository: a loss is any of these
Losses == 0..MaxLoss

\* the order of the steps of one iteration, lines 140, 143, 148, 149
EvalSteps == <<"forward", "loss", "decode", "score">>

\* the arguments of the call of line 148
eval_decode_args == <<"out", "ctcdecode", "lengths_out">>

\* calculate_distances over a whole batch, helper.py lines 47-70
RECURSIVE BatchDistances(_, _, _, _, _, _)
BatchDistances(ii, n, beams, lens, tgts, phoneme_map) ==
    IF ii = n THEN Ok(0)
    ELSE LET pair == pair_distance(ii, beams, lens, tgts, phoneme_map)
         IN  IF pair.exc # "" THEN Raise(pair.exc)
             ELSE LET rest == BatchDistances(ii + 1, n, beams, lens, tgts, phoneme_map)
                  IN  IF rest.exc # "" THEN rest
                      ELSE Ok(pair.val.distance + rest.val)

\* an Evaluation object whose evaluate_model is called
EvalInit ==
    /\ val_loader \in Loaders
    /\ eval_k = 0
    /\ eval_out = <<>>
    /\ val_loss = 0
    /\ running_distance = 0
    /\ eval_trace = <<>>
    /\ eval_returned = <<>>
    /\ eval_exception = ""
    /\ eval_pc = "begin"
    /\ ctcdecode = <<>>

EvalIdle ==
    /\ val_loader = <<>>
    /\ eval_k = 0
    /\ eval_out = <<>>
    /\ val_loss = 0
    /\ running_distance = 0
    /\ eval_trace = <<>>
    /\ eval_returned = <<>>
    /\ eval_exception = ""
    /\ eval_pc = "idle"

\* lines 124-130: both accumulators at 0, the decoder, the model in eval mode
EvalBegin ==
    /\ eval_pc = "begin"
    /\ MakeDecoder
    /\ val_loss' = 0
    /\ running_distance' = 0
    /\ eval_pc' = "loop"
    /\ UNCHANGED <<val_loader, eval_k, eval_out, eval_trace, eval_returned,
                   eval_exception>>
    /\ UNCHANGED eval_frame

\* lines 133-140: the next batch of the loader and the forward pass
EvalForward ==
    /\ eval_pc = "loop"
    /\ eval_k < Len(val_loader)
    /\ \E out \in BatchOutputs(val_loader[eval_k + 1]) : eval_out' = out
    /\ eval_trace' = Append(eval_trace, <<eval_k, "forward">>)
    /\ eval_pc' = "loss"
    /\ UNCHANGED <<val_loader, eval_k, val_loss, running_distance, eval_returned,
                   eval_exception, ctcdecode, handler_vars>>
    /\ UNCHANGED eval_frame

\* lines 143-144: the loss of the batch, added to val_loss
EvalLoss ==
    /\ eval_pc = "loss"
    /\ \E loss \in Losses : val_loss' = val_loss + loss
    /\ eval_trace' = Append(eval_trace, <<eval_k, "loss">>)
    /\ eval_pc' = "decode"
    /\ UNCHANGED <<val_loader, eval_k, eval_out, running_distance, eval_returned,
                   eval_exception, ctcdecode, handler_vars>>
    /\ UNCHANGED eval_frame

\* lines 147-150 when both calls are made: the distance of the batch is
\* added to running_distance, or the exception of the scoring call leaves
ScoreBatch ==
    \E tgts \in [0..(val_loader[eval_k + 1] - 1) -> TargetRows],
       phoneme_map \in PhonemeMaps :
       LET call == decode_output(eval_out, ctcdecode)
           n == Len(Transpose01(eval_out))
           scored == BatchDistances(0, n, call.returned[1], call.returned[4],
                                    tgts, phoneme_map)
       IN  IF scored.exc # ""
           THEN /\ eval_exception' = scored.exc
                /\ eval_pc' = "raised"
                /\ eval_trace' = Append(eval_trace, <<eval_k, "decode">>)
                /\ UNCHANGED <<eval_k, running_distance>>
           ELSE /\ running_distance' = running_distance + scored.val
                /\ eval_trace' = eval_trace \o
                      << <<eval_k, "decode">>, <<eval_k, "score">> >>
                /\ eval_k' = eval_k + 1
                /\ eval_pc' = "loop"
                /\ UNCHANGED eval_exception

\* variant: a failure of the decode call is caught and the loop goes on
\* with the next batch
EvalDecodeAndScore_goon ==
    /\ eval_pc = "decode"
    /\ IF ~CallFits(decode_output_params, eval_decode_args)
       THEN /\ eval_k' = eval_k + 1
            /\ eval_pc' = "loop"
            /\ UNCHANGED <<eval_exception, eval_trace, running_distance>>
       ELSE ScoreBatch
    /\ UNCHANGED <<val_loader, eval_out, val_loss, eval_returned, ctcdecode,
                   handler_vars>>
    /\ UNCHANGED eval_frame

\* lines 147-156: the decode call of line 148, made with three arguments,
\* then the scoring call; an exception of either leaves evaluate_model
EvalDecodeAndScore ==
    /\ eval_pc = "decode"
    /\ IF ~CallFits(decode_output_params, eval_decode_args)
       THEN /\ eval_exception' = "TypeError"
            /\ eval_pc' = "raised"
            /\ UNCHANGED <<eval_k, eval_trace, running_distance>>
       ELSE ScoreBatch
    /\ UNCHANGED <<val_loader, eval_out, val_loss, eval_returned, ctcdecode,
                   handler_vars>>
    /\ UNCHANGED eval_frame

\* a quotient a / b of Python, kept as numerator and denominator
Quotient(a, b) == IF b = 0 THEN Raise("ZeroDivisionError")
                  ELSE Ok([num |-> a, den |-> b])

\* lines 159-162: both averages and the return
EvalReturn ==
    /\ eval_pc = "loop"
    /\ eval_k = Len(val_loader)
    /\ LET loss_avg == Quotient(val_loss, Len(val_loader))
           avg_distance == Quotient(running_distance, SumSeq(val_loader))
       IN  IF loss_avg.exc # ""
           THEN /\ eval_exception' = loss_avg.exc
                /\ eval_pc' = "raised"
                /\ UNCHANGED eval_returned
           ELSE IF avg_distance.exc # ""
           THEN /\ eval_exception' = avg_distance.exc
                /\ eval_pc' = "raised"
                /\ UNCHANGED eval_returned
           ELSE /\ eval_returned' = << <<loss_avg.val, avg_distance.val>> >>
                /\ eval_pc' = "done"
                /\ UNCHANGED eval_exception
    /\ UNCHANGED <<val_loader, eval_k, eval_out, val_loss, running_distance,
                   eval_trace, ctcdecode, handler_vars>>
    /\ UNCHANGED eval_frame

NextEval == EvalBegin \/ EvalForward \/ EvalLoss \/ EvalDecodeAndScore \/ EvalReturn

---------------------------------------------------------------------------
(* Training.train_model, src/customized/phases.py lines 36-87 *)

\* the order of the steps of one iteration, lines 59, 66, 69, 79, 82
TrainSteps == <<"zero_grad", "forward", "loss", "backward", "step">>

\* a Training object whose train_model is called: lines 51-54
TrainInit ==
    /\ train_loader \in 0..MaxLoader
    /\ train_k = 0
    /\ train_loss = 0
    /\ train_losses = <<>>
    /\ train_trace = <<>>
    /\ train_returned = <<>>
    /\ train_exception = ""
    /\ train_pc = "loop"

TrainIdle ==
    /\ train_loader = 0
    /\ train_k = 0
    /\ train_loss = 0
    /\ train_losses = <<>>
    /\ train_trace = <<>>
    /\ train_returned = <<>>
    /\ train_exception = ""
    /\ train_pc = "idle"

\* one statement of the iteration: it is logged and the next one is due
TrainStatement(at, step, next) ==
    /\ train_pc = at
    /\ train_trace' = Append(train_trace, <<train_k, step>>)
    /\ train_pc' = next

\* lines 57-63: the next batch of the loader, optimizer.zero_grad()
TrainZeroGrad ==
    /\ train_k < train_loader
    /\ TrainStatement("loop", "zero_grad", "forward")
    /\ UNCHANGED <<train_loader, train_k, train_loss, train_losses, train_returned,
                   train_exception>>
    /\ UNCHANGED train_frame

\* line 66
TrainForward ==
    /\ TrainStatement("forward", "forward", "loss")
    /\ UNCHANGED <<train_loader, train_k, train_loss, train_losses, train_returned,
                   train_exception>>
    /\ UNCHANGED train_frame

\* lines 69-76: the loss of the batch, added to train_loss
TrainLoss ==
    /\ TrainStatement("loss", "loss", "backward")
    /\ \E loss \in Losses :
          /\ train_loss' = train_loss + loss
          /\ train_losses' = Append(train_losses, loss)
    /\ UNCHANGED <<train_loader, train_k, train_returned, train_exception>>
    /\ UNCHANGED train_frame

\* variant: the backward pass is left out
TrainBackward_left_out ==
    /\ train_pc = "backward"
    /\ train_pc' = "step"
    /\ UNCHANGED <<train_loader, train_k, train_loss, train_losses, train_trace,
                   train_returned, train_exception>>
    /\ UNCHANGED train_frame

\* line 79: loss.backward()
TrainBackward ==
    /\ TrainStatement("backward", "backward", "step")
    /\ UNCHANGED <<train_loader, train_k, train_loss, train_losses, train_returned,
                   train_exception>>
    /\ UNCHANGED train_frame

\* line 82: optimizer.step(), the end of the iteration
TrainStep ==
    /\ TrainStatement("step", "step", "loop")
    /\ train_k' = train_k + 1
    /\ UNCHANGED <<train_loader, train_loss, train_losses, train_returned,
                   train_exception>>
    /\ UNCHANGED train_frame

\* lines 85-87: the average and the return
TrainReturn ==
    /\ train_pc = "loop"
    /\ train_k = train_loader
    /\ LET average == Quotient(train_loss, train_loader)
       IN  IF average.exc # ""
           THEN /\ train_exception' = average.exc
                /\ train_pc' = "raised"
                /\ UNCHANGED train_returned
           ELSE /\ train_returned' = <<average.val>>
                /\ train_pc' = "done"
                /\ UNCHANGED train_exception
    /\ UNCHANGED <<train_loader, train_k, train_loss, train_losses, train_trace>>
    /\ UNCHANGED train_frame

NextTrain == TrainZeroGrad \/ TrainForward \/ TrainLoss \/ TrainBackward
                \/ TrainStep \/ TrainReturn

---------------------------------------------------------------------------
(* _convert_dict_to_dicts, src/octopus/modelhandlers/lstmhandler.py 11-43 *)

\* the decimal digits, the digit of value k at place k + 1
Digits == <<"0", "1", "2", "3", "4", "5", "6", "7", "8", "9">>

\* the names of the parameters of a layer
Parms == {"k", "s"}
ParmValues == {"v", "w"}

\* the keys of conv_dict: layer number, '.', parameter name
Keys == { <<Digits[l + 1], ".", parm>> : l \in 1..MaxLayer, parm \in Parms }

\* conv_dict: some of the keys, each with a value
Dicts == UNION { [ks -> ParmValues] : ks \in SUBSET Keys }

\* key.strip()
RECURSIVE LStrip(_)
LStrip(key) == IF key # <<>> /\ Head(key) = " " THEN LStrip(Tail(key)) ELSE key
RECURSIVE RStrip(_)
RStrip(key) == IF key # <<>> /\ key[Len(key)] = " "
               THEN RStrip(SubSeq(key, 1, Len(key) - 1)) ELSE key
Strip(key) == RStrip(LStrip(key))

\* key.split('.') of a key that holds one '.': what is before and after it
SplitKey(key) ==
    LET dot == CHOOSE at \in 1..Len(key) : key[at] = "."
    IN  [layer_number |-> SubSeq(key, 1, dot - 1),
         layer_parm |-> SubSeq(key, dot + 1, Len(key))]

\* int(layer_number) of a string of digits
RECURSIVE ToInt(_)
ToInt(digits) ==
    IF digits = <<>> THEN 0
    ELSE ToInt(SubSeq(digits, 1, Len(digits) - 1)) * Len(Digits)
         + ((CHOOSE at \in 1..Len(Digits) : Digits[at] = digits[Len(digits)]) - 1)

\* line 25 and line 38: the two parts of a key
LayerNumber(key) == ToInt(SplitKey(Strip(key)).layer_number)
LayerParm(key) == SplitKey(Strip(key)).layer_parm

LayersInit ==
    /\ conv_dict \in Dicts
    /\ layer_number_set = {}
    /\ num_layers = 0
    /\ layer_i = 0
    /\ layer_dicts = <<>>
    /\ layers_returned = <<>>
    /\ layers_pc = "count"

LayersIdle ==
    /\ conv_dict = <<>>
    /\ layer_number_set = {}
    /\ num_layers = 0
    /\ layer_i = 0
    /\ layer_dicts = <<>>
    /\ layers_returned = <<>>
    /\ layers_pc = "idle"

\* lines 23-30: the set of the layer numbers and its size
CountLayers ==
    /\ layers_pc = "count"
    /\ layer_number_set' = { LayerNumber(key) : key \in DOMAIN conv_dict }
    /\ num_layers' = Cardinality(layer_number_set')
    /\ layer_i' = 1
    /\ layers_pc' = "build"
    /\ UNCHANGED <<conv_dict, layer_dicts, layers_returned>>
    /\ UNCHANGED layers_frame

\* lines 33-40 for layer ii: the entries of d whose key has that number
layer_dict(dict, ii) ==
    LET mine == { key \in DOMAIN dict : LayerNumber(key) = ii }
    IN  [ parm \in { LayerParm(key) : key \in mine } |->
            dict[CHOOSE key \in mine : LayerParm(key) = parm] ]

\* lines 31-41: one iteration of for i in range(1, num_layers + 1)
BuildLayer ==
    /\ layers_pc = "build"
    /\ layer_i < num_layers + 1
    /\ layer_dicts' = Append(layer_dicts, layer_dict(conv_dict, layer_i))
    /\ layer_i' = layer_i + 1
    /\ UNCHANGED <<conv_dict, layer_number_set, num_layers, layers_returned,
                   layers_pc>>
    /\ UNCHANGED layers_frame

\* line 43
ReturnLayers ==
    /\ layers_pc = "build"
    /\ layer_i = num_layers + 1
    /\ layers_returned' = <<layer_dicts>>
    /\ layers_pc' = "done"
    /\ UNCHANGED <<conv_dict, layer_number_set, num_layers, layer_i, layer_dicts>>
    /\ UNCHANGED layers_frame

NextLayers == CountLayers \/ BuildLayer \/ ReturnLayers

---------------------------------------------------------------------------
(* Octopus.initialize_pipeline_components, src/octopus/octopus.py 132-156 *)

\* what the model handler and the criterion handler were configured with, and
\* how many batches the loaders of the data loader handler will hold
Handlers == [model_type : {"BasicLSTM", "CnnLSTM", "other"},
             criterion_type : {"CrossEntropyLoss", "CTCLoss", "other"},
             loaders : {0, MaxLoader}]

\* LstmHandler.get_model, lstmhandler.py lines 81-98
get_model(model_type) ==
    IF model_type = "BasicLSTM" THEN "BasicLSTM"
    ELSE IF model_type = "CnnLSTM" THEN "CnnLSTM"
    ELSE "None"

\* CriterionHandler.get_loss_function, criterionhandler.py lines 26-44
get_loss_function(criterion_type) ==
    IF criterion_type = "CrossEntropyLoss" THEN "CrossEntropyLoss"
    ELSE IF criterion_type = "CTCLoss" THEN "CTCLoss"
    ELSE "None"

\* the parameters of the three constructors after self, phases.py lines 22,
\* 95 and 170
Training_params == <<"train_loader", "criterion_func", "devicehandler">>
Evaluation_params == <<"val_loader", "criterion_func", "devicehandler", "ctcdecodehandler">>
Testing_params == <<"test_loader", "devicehandler", "ctcdecodehandler">>

\* the arguments of the three calls, octopus.py lines 152-154
Training_args == <<"train_loader", "loss_func", "devicehandler">>
Evaluation_args == <<"val_loader", "loss_func", "devicehandler", "ctcdecodehandler">>
Testing_args == <<"test_loader", "devicehandler">>

\* the order of the statements, octopus.py lines 137-154
PipeStatements == <<"get_model", "move_model_to_device", "watch", "get_loss_function",
                    "get_optimizer", "get_scheduler", "load", "Training",
                    "Evaluation", "Testing">>

Unset == [model |-> <<>>, loss_func |-> <<>>, optimizer |-> <<>>, scheduler |-> <<>>,
          train_loader |-> <<>>, val_loader |-> <<>>, test_loader |-> <<>>,
          devicehandler |-> <<"devicehandler">>,
          ctcdecodehandler |-> <<"ctcdecodehandler">>,
          training |-> <<>>, evaluation |-> <<>>, testing |-> <<>>]

\* Octopus.__init__ has built the handlers, octopus.py lines 43-77
PipeInit ==
    /\ handlers \in Handlers
    /\ octopus = Unset
    /\ pipe_trace = <<>>
    /\ pipe_exception = ""
    /\ pipe_pc = 1

PipeIdle ==
    /\ handlers = <<>>
    /\ octopus = <<>>
    /\ pipe_trace = <<>>
    /\ pipe_exception = ""
    /\ pipe_pc = 0

\* statement number at runs and the one after it is due
PipeStatement(name) ==
    /\ pipe_pc > 0
    /\ pipe_pc <= Len(PipeStatements)
    /\ PipeStatements[pipe_pc] = name
    /\ pipe_trace' = Append(pipe_trace, name)
    /\ pipe_pc' = pipe_pc + 1
    /\ UNCHANGED <<handlers, pipe_exception>>
    /\ UNCHANGED pipe_frame

\* a constructor call: the object holds the values of its arguments, in the
\* order of the parameters, or the call does not fit the parameters
Construct(attr, params, args) ==
    IF CallFits(params, args)
    THEN /\ octopus' = [octopus EXCEPT
                          ![attr] = << [k \in 1..Len(params) |-> octopus[args[k]]] >>]
         /\ pipe_trace' = Append(pipe_trace, PipeStatements[pipe_pc])
         /\ pipe_pc' = pipe_pc + 1
         /\ UNCHANGED pipe_exception
    ELSE /\ pipe_exception' = "TypeError"
         /\ pipe_pc' = 0
         /\ UNCHANGED <<octopus, pipe_trace>>

\* line 137
GetModel ==
    /\ PipeStatement("get_model")
    /\ octopus' = [octopus EXCEPT !.model =
                      << [type |-> get_model(handlers.model_type), on_device |-> FALSE] >>]

\* lines 138-139
MoveModelToDevice ==
    /\ PipeStatement("move_model_to_device")
    /\ octopus' = [octopus EXCEPT !.model = << [octopus.model[1] EXCEPT !.on_device = TRUE] >>]

\* line 140
Watch ==
    /\ PipeStatement("watch")
    /\ UNCHANGED octopus

\* line 143
GetLossFunction ==
    /\ PipeStatement("get_loss_function")
    /\ octopus' = [octopus EXCEPT !.loss_func =
                      <<get_loss_function(handlers.criterion_type)>>]

\* line 144: the optimizer holds the parameters of the model it is given
GetOptimizer ==
    /\ PipeStatement("get_optimizer")
    /\ octopus' = [octopus EXCEPT !.optimizer = << [model |-> octopus.model] >>]

\* line 145: the scheduler holds the optimizer it is given
GetScheduler ==
    /\ PipeStatement("get_scheduler")
    /\ octopus' = [octopus EXCEPT !.scheduler = << [optimizer |-> octopus.optimizer] >>]

\* line 149
Load ==
    /\ PipeStatement("load")
    /\ octopus' = [octopus EXCEPT !.train_loader = <<handlers.loaders>>,
                                  !.val_loader = <<handlers.loaders>>,
                                  !.test_loader = <<handlers.loaders>>]

\* line 152
MakeTraining ==
    /\ pipe_pc > 0
    /\ PipeStatements[pipe_pc] = "Training"
    /\ Construct("training", Training_params, Training_args)
    /\ UNCHANGED handlers
    /\ UNCHANGED pipe_frame

\* line 153
MakeEvaluation ==
    /\ pipe_pc > 0
    /\ PipeStatements[pipe_pc] = "Evaluation"
    /\ Construct("evaluation", Evaluation_params, Evaluation_args)
    /\ UNCHANGED handlers
    /\ UNCHANGED pipe_frame

\* line 154
MakeTesting ==
    /\ pipe_pc > 0
    /\ pipe_pc <= Len(PipeStatements)
    /\ PipeStatements[pipe_pc] = "Testing"
    /\ Construct("testing", Testing_params, Testing_args)
    /\ UNCHANGED handlers
    /\ UNCHANGED pipe_frame

NextPipe == GetModel \/ MoveModelToDevice \/ Watch \/ GetLossFunction \/ GetOptimizer
               \/ GetScheduler \/ Load \/ MakeTraining \/ MakeEvaluation \/ MakeTesting

---------------------------------------------------------------------------
(* Specifications *)

\* nothing outside the component a specification follows
SetupIdle == LayersIdle /\ PipeIdle

\* no caller of decode_output
CallerIdle ==
    /\ frames = <<>>
    /\ frames_arg = <<>>
    /\ decoder_seen = <<>>
    /\ decoder_gave = <<>>
    /\ returned = <<>>

\* a call of calculate_distances
Init == ScoreInit /\ DecodeIdle /\ TestIdle /\ HandlerIdle /\ EvalIdle
           /\ TrainIdle /\ SetupIdle
Spec == Init /\ [][Next]_vars

\* a caller of decode_output
InitDecode == ScoreIdle /\ DecodeInit /\ TestIdle /\ HandlerIdle /\ EvalIdle
                 /\ TrainIdle /\ SetupIdle
SpecDecode == InitDecode /\ [][NextDecode]_vars

\* a call of Testing.test_model
InitTest == ScoreIdle /\ CallerIdle /\ TestInit /\ HandlerInit /\ EvalIdle
               /\ TrainIdle /\ SetupIdle
SpecTest == InitTest /\ [][NextTest]_vars

\* a call of Evaluation.evaluate_model
InitEval == ScoreIdle /\ CallerIdle /\ TestIdle /\ HandlerInit /\ EvalInit
               /\ TrainIdle /\ SetupIdle
SpecEval == InitEval /\ [][NextEval]_vars

\* a call of Training.train_model
InitTrain == ScoreIdle /\ DecodeIdle /\ TestIdle /\ HandlerIdle /\ EvalIdle
                /\ TrainInit /\ SetupIdle

\* one phase of an epoch: a call of train_model, of evaluate_model or of
\* test_model
InitPhases == InitTrain \/ InitEval \/ InitTest
NextPhases == NextTrain \/ NextEval \/ NextTest
SpecPhases == InitPhases /\ [][NextPhases]_vars

\* a call of one of the functions that are given the decoder or the phoneme
\* map
InitShared == Init \/ InitDecode \/ InitEval \/ InitTest
NextShared == Next \/ NextDecode \/ NextEval \/ NextTest
SpecShared == InitShared /\ [][NextShared]_vars

\* a call of _convert_dict_to_dicts
InitLayers == ScoreIdle /\ DecodeIdle /\ TestIdle /\ HandlerIdle /\ EvalIdle
                 /\ TrainIdle /\ LayersInit /\ PipeIdle
SpecLayers == InitLayers /\ [][NextLayers]_vars

\* a call of Octopus.initialize_pipeline_components
InitPipe == ScoreIdle /\ DecodeIdle /\ TestIdle /\ HandlerIdle /\ EvalIdle
               /\ TrainIdle /\ LayersIdle /\ PipeInit
SpecPipe == InitPipe /\ [][NextPipe]_vars

---------------------------------------------------------------------------
(* What the claims speak of, stated apart from the helper's own code *)

\* the row of the running iteration is readable
HasRow == pc \in {"convert", "append", "raised"}

TopBuffer == beam_results[i][0]
TopLength == out_lens[i][0]
TopCandidate == SubSeq(TopBuffer, 1, TopLength)

\* symbol k of the table, k counted from 0
Symbol(phoneme_map, k) == phoneme_map[k + 1]

\* phoneme_map[seq[0]] .. phoneme_map[seq[n-1]] written one after another
RECURSIVE Concatenation(_, _, _)
Concatenation(seq, n, phoneme_map) ==
    IF n = 0 THEN <<>>
    ELSE Concatenation(seq, n - 1, phoneme_map) \o Symbol(phoneme_map, seq[n])

\* the fewest single-character insertions, deletions and substitutions that
\* turn a into b
RECURSIVE EditDistance(_, _)
EditDistance(a, b) ==
    IF a = <<>> THEN Len(b)
    ELSE IF b = <<>> THEN Len(a)
    ELSE IF Head(a) = Head(b) THEN EditDistance(Tail(a), Tail(b))
    ELSE 1 + Min3(EditDistance(Tail(a), b),
                  EditDistance(a, Tail(b)),
                  EditDistance(Tail(a), Tail(b)))

RECURSIVE Total(_)
Total(s) == IF s = <<>> THEN 0 ELSE Total(SubSeq(s, 1, Len(s) - 1)) + s[Len(s)]

\* some index of seq is not an index of the table
BadIndex(seq, phoneme_map) == \E k \in 1..Len(seq) : seq[k] >= Len(phoneme_map)

SingleCharacters(phoneme_map) == \A k \in 1..Len(phoneme_map) : Len(phoneme_map[k]) = 1

\* the specification's examples: table A B C (D), candidate 0 1 2 of length 3
ExampleMap == << <<"A">>, <<"B">>, <<"C">>, <<"D">> >>
ExampleBeams == (0 :> [j \in 0..(NumBeams - 1) |-> IF j = 0 THEN <<0, 1, 2>> ELSE <<3, 3, 3>>])
ExampleLens == (0 :> [j \in 0..(NumBeams - 1) |-> Len(<<0, 1, 2>>)])
ExampleTargets == (0 :> <<0, 1, 3>>)

---------------------------------------------------------------------------
(* C1: calculate_distances returns the sum, over the pairs of the batch,   *)
(* of the Levenshtein distance between the decoded string of the pair (top *)
(* beam, truncated to out_lens[i][0], mapped through the table and         *)
(* concatenated) and the mapped target; "ABC" against "ABD" contributes 1. *)
C1_SumOfEditDistances ==
    [][ /\ pc' = "append" =>
              distance' = EditDistance(
                  Concatenation(TopBuffer', TopLength', phoneme_list'),
                  Concatenation(targets'[i'], Len(targets'[i']), phoneme_list'))
        /\ pc = "append" => distances' = Append(distances, distance)
        /\ pc' = "done" =>
              /\ Len(distances') = n_batches'
              /\ result' = <<Total(distances')>>
        /\ pair_distance(0, ExampleBeams, ExampleLens, ExampleTargets,
                         ExampleMap).val.distance = 1
      ]_vars

C1_Witness ==
    /\ pc = "done"
    /\ n_batches = 2
    /\ distances = <<1, 2>>
    /\ result = <<3>>

(* C2: to_symbols returns the symbols phoneme_map[candidate[k]],           *)
(* k = 0..L-1, in order, with no separator and nothing else; table A B C,  *)
(* candidate 0 1 2 and length 3 give "ABC".                                *)
C2_ConcatenationInOrder ==
    /\ pc = "append" =>
          /\ out_str = Concatenation(TopBuffer, TopLength, phoneme_list)
          /\ to_symbols(i, beam_results, out_lens, phoneme_list) = Ok(out_str)
    /\ to_symbols(0, ExampleBeams, ExampleLens, ExampleMap) = Ok(<<"A", "B", "C">>)

C2_Witness ==
    /\ pc = "append"
    /\ TopBuffer = <<1, 0>>
    /\ TopLength = 2
    /\ phoneme_list = << <<"A">>, <<"B", "A">> >>
    /\ out_str = <<"B", "A", "A">>

(* C3 as stated: the length in characters of the decoded string equals the *)
(* truncation length out_lens[i][0] for any table covering the indices.    *)
C3_LengthEqualsTruncation ==
    pc = "append" => Len(out_str) = TopLength

(* C3 as amended: the decoded string is made of exactly out_lens[i][0]     *)
(* symbols, so its length in characters is the sum of the lengths of the   *)
(* mapped symbols; it equals out_lens[i][0], and so never exceeds it, when *)
(* every symbol of the table is one character.                             *)
C3_LengthIsSumOfSymbolLengths ==
    pc = "append" =>
      LET out_converted_now ==
              convert_to_phonemes(i, beam_results, out_lens, phoneme_list).val
      IN
        /\ Len(out_str) =
              Total([k \in 1..TopLength |-> Len(Symbol(phoneme_list, TopBuffer[k]))])
        /\ Len(out_converted_now) = TopLength
        /\ SingleCharacters(phoneme_list) => Len(out_str) = TopLength

C3_Witness ==
    /\ pc = "append"
    /\ SingleCharacters(phoneme_list)
    /\ TopLength = 1
    /\ Len(TopBuffer) > TopLength
    /\ Len(out_str) = 1

(* C5: score is symmetric: the distance of a pair is the distance of the   *)
(* pair with the decoded sequence and the target sequence exchanged.       *)
C5_Symmetric ==
    pc = "append" =>
        LET swapped == pair_distance(i,
                (i :> [j \in 0..(NumBeams - 1) |-> targets[i]]),
                (i :> [j \in 0..(NumBeams - 1) |-> Len(targets[i])]),
                (i :> TopCandidate),
                phoneme_list)
        IN  /\ swapped.exc = ""
            /\ swapped.val.out_str = target_str
            /\ swapped.val.target_str = out_str
            /\ swapped.val.distance = distance

C5_Witness ==
    /\ pc = "append"
    /\ Len(out_str) # Len(target_str)
    /\ out_str # <<>>
    /\ target_str # <<>>
    /\ distance = 2

(* C6: score([x],[x]) = 0: a pair whose truncated top beam is its target   *)
(* has distance 0, and a batch of such pairs has total 0.                  *)
C6_IdenticalIsZero ==
    /\ (pc = "append" /\ TopCandidate = targets[i]) => distance = 0
    /\ (pc = "append" /\ out_str = target_str) => distance = 0
    /\ (pc = "done" /\ \A k \in 1..Len(distances) : distances[k] = 0) => result = <<0>>

C6_Witness ==
    /\ pc = "append"
    /\ TopLength = 2
    /\ TopCandidate = targets[i]
    /\ TopBuffer[1] # TopBuffer[2]
    /\ distance = 0

(* C7: a candidate of reported length 0 decodes to the empty string,       *)
(* whatever its buffer holds, and its distance to a target string of       *)
(* length n is n.                                                          *)
C7_EmptyCandidate ==
    (HasRow /\ TopLength = 0) =>
        /\ to_symbols(i, beam_results, out_lens, phoneme_list) = Ok(<<>>)
        /\ pc = "append" => (out_str = <<>> /\ distance = Len(target_str))

C7_Witness ==
    /\ pc = "append"
    /\ TopLength = 0
    /\ TopBuffer = <<1, 1>>
    /\ out_str = <<>>
    /\ Len(target_str) = 2
    /\ distance = 2

(* C8: the conversion fails with an out-of-range error, and yields no      *)
(* string, whenever an index it maps (one of the first L of the candidate, *)
(* or any of the target) is not below the size of the table; no symbol is  *)
(* substituted or skipped.                                                 *)
C8_OutOfRangeFails ==
    HasRow =>
        LET bad_out == BadIndex(TopCandidate, phoneme_list)
            bad_target == BadIndex(targets[i], phoneme_list)
        IN  /\ bad_out => to_symbols(i, beam_results, out_lens, phoneme_list)
                              = Raise("IndexError")
            /\ bad_target => target_to_phonemes(targets[i], phoneme_list)
                              = Raise("IndexError")
            /\ (bad_out \/ bad_target) =>
                  /\ pc # "append"
                  /\ out_str = <<>> /\ target_str = <<>>
            /\ pc = "raised" => (exception = "IndexError" /\ (bad_out \/ bad_target))

C8_Witness ==
    /\ pc = "raised"
    /\ exception = "IndexError"
    /\ ~BadIndex(TopCandidate, phoneme_list)
    /\ BadIndex(targets[i], phoneme_list)
    /\ \E k \in 1..Len(TopBuffer) : TopBuffer[k] >= Len(phoneme_list)

(* C9: score is fail-fast: when the conversion of pair i fails,            *)
(* calculate_distances ends with that failure, returns no total (not the   *)
(* sum of the pairs before i) and processes no pair after i.               *)
C9_FailFast ==
    [][ /\ (pc = "convert" /\ (BadIndex(TopCandidate, phoneme_list)
                               \/ BadIndex(targets[i], phoneme_list))) =>
              /\ pc' = "raised"
              /\ exception' = "IndexError"
              /\ result' = <<>>
              /\ distances' = distances
              /\ i' = i
        /\ pc = "raised" => UNCHANGED vars
        /\ pc' = "done" => exception' = ""
      ]_vars

C9_Witness ==
    /\ pc = "raised"
    /\ n_batches = 2
    /\ i = 0
    /\ distances = <<>>
    /\ result = <<>>

(* C4: only the top-ranked beam of a batch element reaches the result:     *)
(* with the lower-ranked beams and their lengths replaced by any others,   *)
(* calculate_distances measures the same, and test_model returns the same  *)
(* list of decoded strings, the top-beam strings of its batches.           *)

\* the tensors with every lower-ranked beam replaced by the beam other
ReplaceLower(tensor, field, other) ==
    [b \in DOMAIN tensor |->
        [j \in DOMAIN tensor[b] |-> IF j = 0 THEN tensor[b][j] ELSE other[field]]]

\* the calculate_distances half, under Spec
C4_ScoreReadsTopBeamOnly ==
    pc \in {"convert", "append"} =>
        \A other \in LowerBeams :
            LET there == pair_distance(i, ReplaceLower(beam_results, "buf", other),
                                       ReplaceLower(out_lens, "len", other),
                                       targets, phoneme_list)
            IN  /\ there = pair_distance(i, beam_results, out_lens, targets, phoneme_list)
                /\ pc = "append" => (there.exc = "" /\ there.val.distance = distance)

\* the strings of the top beams of a batch whose model output is out
TopBeamStrings(out, decoder, other) ==
    LET gave == ctc_decode(decoder, Transpose01(out))
    IN  BatchStrings(0, Len(out[1]), ReplaceLower(gave[1], "buf", other),
                     ReplaceLower(gave[4], "len", other))

\* the claim, both halves of it for test_model: a batch taken from the loader
\* leaves its top-beam strings at the end of results, whatever the lower
\* beams hold, and test_model returns results
C4_TopBeamOnly ==
    /\ test_out # <<>> =>
          /\ test_exception = ""
          /\ \A other \in LowerBeams :
                LET strings == TopBeamStrings(test_out, ctcdecode, other).val
                IN  /\ Len(test_results) >= Len(strings)
                    /\ SubSeq(test_results, Len(test_results) - Len(strings) + 1,
                              Len(test_results)) = strings
    /\ test_pc = "done" => test_returned = <<test_results>>

(* C10: decode_output(frames, decoder) hands the decoder the frames        *)
(* transposed from (time, batch, classes) to (batch, time, classes),       *)
(* returns the decoder's four results as they are, leaves the caller's     *)
(* tensor as it was, and returns equal results to equal arguments.         *)
C10_DecodeOutput ==
    /\ frames = frames_arg
    /\ \A k \in 1..Len(returned) :
          /\ Len(decoder_seen[k]) = Len(frames_arg[1])
          /\ \A b \in 1..Len(frames_arg[1]) :
                /\ Len(decoder_seen[k][b]) = Len(frames_arg)
                /\ \A t \in 1..Len(frames_arg) :
                      decoder_seen[k][b][t] = frames_arg[t][b]
          /\ returned[k] = decoder_gave[k]
          /\ Len(returned[k]) = Len(<<"candidates", "scores", "alignments", "lengths">>)
          /\ returned[k] = returned[1]

C10_Witness ==
    /\ Len(returned) = 2
    /\ Len(frames_arg) = 2
    /\ Len(frames_arg[1]) = 2
    /\ frames_arg[1][2] # frames_arg[2][1]
    /\ returned[2][4][0][0] = 2
    /\ returned[2][4][1][0] = 0


---------------------------------------------------------------------------
(* The phases: train_model, evaluate_model, test_model *)

\* the log is the given steps, in their order, batch after batch
StepsInOrder(trace, steps) ==
    \A j \in 1..Len(trace) :
        trace[j] = <<(j - 1) \div Len(steps), steps[((j - 1) % Len(steps)) + 1]>>

(* C11: in evaluate_model the steps of a batch run in the order forward    *)
(* pass, loss, one decode call, scoring, and the steps of a batch are all  *)
(* done before a step of the next batch: whenever evaluate_model is        *)
(* between two batches or has ended, every batch taken from the loader     *)
(* has had its four steps.                                                 *)
C11_StepsInOrder ==
    /\ StepsInOrder(eval_trace, EvalSteps)
    /\ eval_pc \in {"loop", "raised", "done"} =>
          Len(eval_trace) % Len(EvalSteps) = 0

(* C12: the decoder and the phoneme map are only read.  A call of          *)
(* evaluate_model or of test_model builds one decoder and uses it for      *)
(* every batch; no call of decode_output, of calculate_distances or of     *)
(* the symbol conversion changes the configuration of the decoder, the     *)
(* fields of the handler it was built from, or the phoneme map.            *)
C12_SharedReadOnly ==
    [][ /\ ctcdecode # <<>> => ctcdecode' = ctcdecode
        /\ ctcdecodehandler' = ctcdecodehandler
        /\ phoneme_list' = phoneme_list
        /\ decoders_made' <= 1
        /\ decoders_made' = 1 => ctcdecode' = ctcdecodehandler' ]_vars

C12_Witness ==
    /\ Len(returned) = 2
    /\ ctcdecode \in Decoders
    /\ ctcdecode.blank_id = 0
    /\ Len(frames) = 2

(* C13: a decode call of evaluate_model that fails ends evaluate_model     *)
(* with that failure: the exception is the one the call raised, the batch  *)
(* is not tried again, no later batch is taken, and no pair is returned.   *)
C13_FailurePropagates ==
    [][ /\ (eval_pc = "decode" /\ ~CallFits(decode_output_params, eval_decode_args)) =>
              /\ eval_pc' = "raised"
              /\ eval_exception' = "TypeError"
              /\ eval_k' = eval_k
              /\ eval_trace' = eval_trace
              /\ eval_returned' = <<>>
        /\ eval_pc = "raised" => UNCHANGED vars ]_vars

C13_Witness ==
    /\ eval_pc = "raised"
    /\ eval_exception = "TypeError"
    /\ Len(val_loader) = MaxLoader
    /\ eval_k = 0
    /\ eval_returned = <<>>
    /\ val_loss = MaxLoss

(* C14: test_model returns a list that has one entry for every example of  *)
(* the batches of the loader, in batch order and in the order within the   *)
(* batch, each entry the string of the top beam of its example.            *)
C14_OneStringPerExample ==
    /\ test_pc \in {"raised", "done"} =>
          /\ test_returned = <<test_results>>
          /\ Len(test_results) = test_examples
    /\ test_out # <<>> =>
          LET strings == BatchStrings(0, Len(test_out[1]),
                                      decode_output(test_out, ctcdecode).returned[1],
                                      decode_output(test_out, ctcdecode).returned[4]).val
          IN  SubSeq(test_results, test_examples - Len(strings) + 1, test_examples)
                 = strings

(* C15: the decode calls of evaluate_model and of test_model fit           *)
(* decode_output(frames, decoder) and the conversion helper they use is    *)
(* defined, so neither call ends with an argument-count error or a         *)
(* missing-name error.                                                     *)
C15_CallsConform ==
    /\ eval_exception \notin {"TypeError", "NameError"}
    /\ test_exception \notin {"TypeError", "NameError"}

(* C16: evaluate_model over a loader of at least one batch returns the     *)
(* pair of the summed losses divided by the number of batches and the      *)
(* summed distances divided by the size of the dataset, and both sums      *)
(* start from 0.                                                           *)
C16_ReturnsAverages ==
    /\ (eval_pc = "loop" /\ eval_k = 0) => (val_loss = 0 /\ running_distance = 0)
    /\ (Len(val_loader) >= 1 /\ eval_pc \in {"raised", "done"}) =>
          eval_returned =
             << << [num |-> val_loss, den |-> Len(val_loader)],
                   [num |-> running_distance, den |-> SumSeq(val_loader)] >> >>

(* C17: train_model runs, for each batch, zero_grad, the forward pass, the *)
(* loss, the backward pass and the optimizer step, in that order, the step *)
(* once per batch and after the backward pass of that batch; it returns    *)
(* the sum of the losses of the batches divided by the number of batches.  *)
(* evaluate_model and test_model make none of these calls.                 *)
C17_OneStepPerBatch ==
    /\ StepsInOrder(train_trace, TrainSteps)
    /\ train_pc = "loop" => Len(train_trace) = Len(TrainSteps) * train_k
    /\ train_pc = "done" =>
          /\ Len(train_losses) = train_loader
          /\ train_returned = << [num |-> SumSeq(train_losses), den |-> train_loader] >>
    /\ (eval_pc # "idle" \/ test_pc # "idle") => train_trace = <<>>

C17_Witness ==
    /\ train_pc = "done"
    /\ train_loader = MaxLoader
    /\ train_losses[1] = MaxLoss
    /\ train_losses[MaxLoader] = 1
    /\ Len(train_trace) = Len(TrainSteps) * MaxLoader

---------------------------------------------------------------------------
(* The set-up: _convert_dict_to_dicts, initialize_pipeline_components *)

\* the numbers of a set, smallest first
RECURSIVE Ascending(_)
Ascending(numbers) ==
    IF numbers = {} THEN <<>>
    ELSE LET least == CHOOSE n \in numbers : \A m \in numbers : n <= m
         IN  <<least>> \o Ascending(numbers \ {least})

(* C18: _convert_dict_to_dicts(d) returns one dictionary for each layer    *)
(* number of d, in the order of the layer numbers, and the dictionary of   *)
(* a layer holds the parameters of that layer and no other, each with the  *)
(* value it has in d.                                                      *)
C18_OneDictPerLayer ==
    layers_pc = "done" =>
        LET layers == Ascending({ LayerNumber(key) : key \in DOMAIN conv_dict })
            dicts == layers_returned[1]
        IN  /\ Len(dicts) = Len(layers)
            /\ \A j \in 1..Len(layers) :
                  /\ DOMAIN dicts[j] =
                        { LayerParm(key) : key \in { k \in DOMAIN conv_dict :
                                                       LayerNumber(k) = layers[j] } }
                  /\ \A key \in DOMAIN conv_dict :
                        LayerNumber(key) = layers[j] =>
                            dicts[j][LayerParm(key)] = conv_dict[key]

(* C19: initialize_pipeline_components gives the optimizer a model that is *)
(* on the device, gives the scheduler the optimizer, builds the phase      *)
(* objects when the loss function and the loaders exist, and calls each    *)
(* phase constructor with the arguments it requires, the decode handler    *)
(* among them for Evaluation and Testing.                                  *)
C19_ComponentsInOrder ==
    /\ octopus.optimizer # <<>> =>
          /\ octopus.optimizer[1].model # <<>>
          /\ octopus.optimizer[1].model[1].on_device
    /\ octopus.scheduler # <<>> =>
          /\ octopus.optimizer # <<>>
          /\ octopus.scheduler[1].optimizer = octopus.optimizer
    /\ \A phase \in {"training", "evaluation", "testing"} :
          octopus[phase] # <<>> =>
              /\ octopus.loss_func # <<>>
              /\ octopus.train_loader # <<>>
              /\ octopus.val_loader # <<>>
              /\ octopus.test_loader # <<>>
    /\ pipe_exception = ""
    /\ pipe_pc > Len(PipeStatements) =>
          /\ octopus.evaluation[1][Len(Evaluation_params)] = octopus.ctcdecodehandler
          /\ octopus.testing[1][Len(Testing_params)] = octopus.ctcdecodehandler

====
